---- MODULE Spec2Model ----
(***************************************************************************)
(* A model of gain_requests_futures.sessions.FuturesSession: a requests    *)
(* Session whose send() submits the request to a concurrent.futures        *)
(* executor and returns the Future.                                        *)
(*                                                                         *)
(* The session under study is built once (Init is the state after          *)
(* __init__), then caller threads call send, close, Future.result and      *)
(* resolve_redirects while the executor's workers run the submitted work.  *)
(* The requests library and the executor are outside the repository; they  *)
(* are modelled by what the repository's code relies on: Session.send      *)
(* follows redirects through self.resolve_redirects, whose loop sends      *)
(* every hop through self.send with the adapter kwargs it was given and    *)
(* then reads resp.raw; an executor queues work first-in first-out,        *)
(* rejects submit after shutdown, and shutdown(wait=True) returns when the *)
(* queued work has been run.                                               *)
(***************************************************************************)
EXTENDS Integers, Sequences, FiniteSets, TLC

\* ------------------------------------------------------------- bounds
\* most work items ever submitted to the executor
MaxFutures == 2

\* largest max_workers a session is constructed with
MaxWorkersArg == 12

\* requests.adapters.DEFAULT_POOLSIZE
DEFAULT_POOLSIZE == 10

Threads == {"t1", "t2"}

\* ------------------------------------------------------------- the server
\* "/a" redirects to "/b", "/b" redirects to "/c", "/c" answers 200.
\* "/x" is reachable only through the adapter a customised session mounts.
URLs == {"/a", "/b", "/c", "/x"}
\* the calls the callers make: <<url, allow_redirects>>
Requests == {<<"/a", TRUE>>, <<"/a", FALSE>>, <<"/x", TRUE>>}

Location(url) ==
    CASE url = "/a" -> "/b"
      [] url = "/b" -> "/c"
      [] OTHER -> ""

NoResp == [status |-> 0, url |-> "", via |-> ""]

\* what a call comes back with: a Response, a raised error or a Future
Returned(resp) == [kind |-> "response", resp |-> resp, err |-> "", fut |-> 0]
Raised(err) == [kind |-> "error", resp |-> NoResp, err |-> err, fut |-> 0]
Pending(i) == [kind |-> "future", resp |-> NoResp, err |-> "", fut |-> i]

\* a call's result together with what it did: the work it submitted to the
\* executor, the requests that reached the server, and the _async flag of
\* every nested self.send it made
Eff(out, submits, hits, nested) ==
    [out |-> out, submits |-> submits, hits |-> hits, nested |-> nested]

Then(first, second) ==
    Eff(second.out,
        first.submits \o second.submits,
        first.hits + second.hits,
        first.nested \o second.nested)

\* ------------------------------------------------------------- state
VARIABLES
    executor,        \* self.executor: [kind, workers, shutdown]
    owned_executor,  \* self._owned_executor
    session,         \* self.session: "None", or the delegate's adapter setup
    adapters,        \* pool capacity of the adapter mounted for each scheme
    dumps_result,    \* what pickle.dumps does with this session's send function
    closed,          \* Session.close() has released the base-session resources
    futures,         \* every work item submitted to the executor, in queue order
    pc,              \* where each caller thread is
    last,            \* the call that completed most recently, and its result
    close_returned,  \* a call of close() has returned
    args             \* the arguments the session was constructed with

vars == <<executor, owned_executor, session, adapters, dumps_result, closed,
          futures, pc, last, close_returned, args>>

\* ------------------------------------------------------------- construction
None == [kind |-> "None", workers |-> 0, shutdown |-> FALSE]

ThreadPoolExecutor(max_workers) ==
    [kind |-> "thread", workers |-> max_workers, shutdown |-> FALSE]

\* the pools a caller can hand to the constructor
SuppliedExecutors ==
    {[kind |-> "thread", workers |-> 2, shutdown |-> FALSE],
     [kind |-> "process", workers |-> 2, shutdown |-> FALSE]}

HTTPAdapter(pool_connections, pool_maxsize) ==
    [pool_connections |-> pool_connections, pool_maxsize |-> pool_maxsize]

\* the adapters Session.__init__ mounts
DefaultAdapters ==
    [https |-> HTTPAdapter(DEFAULT_POOLSIZE, DEFAULT_POOLSIZE),
     http |-> HTTPAdapter(DEFAULT_POOLSIZE, DEFAULT_POOLSIZE)]

\* before Session.__init__ has run nothing is mounted
NoAdapters == [https |-> HTTPAdapter(0, 0), http |-> HTTPAdapter(0, 0)]

\* __init__ that mounts the larger adapter for https only
FuturesSessionHttpsOnly(executor_arg, max_workers, session_arg) ==
    [owned_executor |-> (executor_arg = None),
     executor |-> IF executor_arg = None
                  THEN ThreadPoolExecutor(max_workers)
                  ELSE executor_arg,
     adapters |-> IF executor_arg = None /\ max_workers > DEFAULT_POOLSIZE
                  THEN [https |-> HTTPAdapter(max_workers, max_workers),
                        http |-> HTTPAdapter(DEFAULT_POOLSIZE, DEFAULT_POOLSIZE)]
                  ELSE DefaultAdapters,
     session |-> session_arg]

\* __init__ that sizes the adapters whether or not an executor was supplied
FuturesSessionMountAlways(executor_arg, max_workers, session_arg) ==
    [owned_executor |-> (executor_arg = None),
     executor |-> IF executor_arg = None
                  THEN ThreadPoolExecutor(max_workers)
                  ELSE executor_arg,
     adapters |-> IF max_workers > DEFAULT_POOLSIZE
                  THEN [https |-> HTTPAdapter(max_workers, max_workers),
                        http |-> HTTPAdapter(max_workers, max_workers)]
                  ELSE DefaultAdapters,
     session |-> session_arg]

\* FuturesSession.__init__: the fields of the new session
FuturesSession(executor_arg, max_workers, session_arg) ==
    [owned_executor |-> (executor_arg = None),
     executor |-> IF executor_arg = None
                  THEN ThreadPoolExecutor(max_workers)
                  ELSE executor_arg,
     adapters |-> IF executor_arg = None /\ max_workers > DEFAULT_POOLSIZE
                  THEN [https |-> HTTPAdapter(max_workers, max_workers),
                        http |-> HTTPAdapter(max_workers, max_workers)]
                  ELSE DefaultAdapters,
     session |-> session_arg]

\* ------------------------------------------------------------- requests
\* the adapter setup a session object sends through
Config(obj) == IF obj = "self" THEN "default" ELSE obj

\* HTTPAdapter.send: one request on the wire
HTTPAdapter_send(cfg, url) ==
    IF url = "/x" /\ cfg # "custom"
    THEN Eff(Raised("ConnectionError"), <<>>, 1, <<>>)
    ELSE Eff(Returned([status |-> IF Location(url) # "" THEN 302 ELSE 200,
                       url |-> url, via |-> cfg]),
             <<>>, 1, <<>>)

PICKLE_ERROR == "Cannot pickle function"
ShutdownError == "cannot schedule new futures after shutdown"

\* pickle.dumps(func): "ok", or the exception it raises
dumps(func) == dumps_result

\* Executor.submit: queue the call, hand back its Future
submit(func, url, kwargs) ==
    IF executor.shutdown
    THEN Eff(Raised(ShutdownError), <<>>, 0, <<>>)
    ELSE Eff(Pending(Len(futures) + 1),
             <<[fn |-> func, url |-> url, kwargs |-> kwargs,
                state |-> "pending", out |-> Pending(Len(futures) + 1)]>>,
             0, <<>>)

RECURSIVE send(_, _, _)
RECURSIVE resolve_redirects(_, _)
RECURSIVE Session_send(_, _, _)
RECURSIVE Session_resolve_redirects(_, _, _)

\* requests.Session.resolve_redirects on the session object obj, consumed to
\* its end: while resp redirects, send the next hop through obj.send with
\* allow_redirects=False and the adapter kwargs, then read resp.raw.  The
\* result is the last response of the chain.
Session_resolve_redirects(obj, resp, adapter_kwargs) ==
    IF resp.status # 302
    THEN Eff(Returned(resp), <<>>, 0, <<>>)
    ELSE LET url == Location(resp.url)
             hop == IF obj = "self"
                    THEN send(url, adapter_kwargs,
                              [allow_redirects |-> FALSE])
                    ELSE Session_send(obj, url, [allow_redirects |-> FALSE])
             sent == IF obj = "self"
                     THEN Then(Eff(hop.out, <<>>, 0,
                                   <<[_async |-> adapter_kwargs # "False",
                                      kind |-> hop.out.kind]>>),
                               hop)
                     ELSE hop
         IN  CASE sent.out.kind = "error" -> sent
               [] sent.out.kind = "future" ->
                      Then(sent, Eff(Raised("AttributeError"), <<>>, 0, <<>>))
               [] OTHER ->
                      Then(sent, Session_resolve_redirects(
                                     obj, sent.out.resp, adapter_kwargs))

\* requests.Session.send on the session object obj
Session_send(obj, url, kwargs) ==
    LET r == HTTPAdapter_send(Config(obj), url)
    IN  IF r.out.kind = "error" \/ ~kwargs.allow_redirects
        THEN r
        ELSE Then(r, IF obj = "self"
                     THEN resolve_redirects(r.out, "unset")
                     ELSE Session_resolve_redirects(obj, r.out.resp, "unset"))

\* Future.result() once the future is done: its response, or its error raised
result(future) ==
    IF future.kind = "error" THEN Raised(future.err) ELSE Returned(future.resp)

\* a resolve_redirects that leaves the caller's _async as it is
resolve_redirects_keep_async(resp, kw_async) ==
    IF resp.kind = "future"
    THEN IF result(resp.of).kind = "error"
         THEN Eff(result(resp.of), <<>>, 0, <<>>)
         ELSE Session_resolve_redirects("self", result(resp.of).resp, kw_async)
    ELSE Session_resolve_redirects("self", resp.resp, kw_async)

\* FuturesSession.resolve_redirects.  resp is a Response (kind "response"),
\* or a Future, given as [kind |-> "future"] with the outcome it has come to
\* now that resp.result() no longer blocks.  kw_async is the caller's
\* kwargs.get('_async'), "unset" when the caller passed none.
resolve_redirects(resp, kw_async) ==
    IF resp.kind = "future"
    THEN IF result(resp.of).kind = "error"
         THEN Eff(result(resp.of), <<>>, 0, <<>>)
         ELSE Session_resolve_redirects("self", result(resp.of).resp, kw_async)
    ELSE Session_resolve_redirects("self", resp.resp, "False")

\* a send that calls the send function itself instead of submitting it
send_inline(url, _async, kwargs) ==
    IF _async = "False"
    THEN Session_send("self", url, kwargs)
    ELSE Session_send(IF session # "None" THEN session ELSE "self",
                      url, kwargs)

\* a send that makes the pickle check whatever the executor is
send_always_checks(url, _async, kwargs) ==
    IF _async = "False"
    THEN Session_send("self", url, kwargs)
    ELSE LET func == IF session # "None" THEN session ELSE "self"
         IN  IF dumps(func) # "ok"
             THEN IF dumps(func) \in {"TypeError", "PickleError"}
                  THEN Eff(Raised(PICKLE_ERROR), <<>>, 0, <<>>)
                  ELSE Eff(Raised(dumps(func)), <<>>, 0, <<>>)
             ELSE submit(func, url, kwargs)

\* FuturesSession.send
send(url, _async, kwargs) ==
    IF _async = "False"
    THEN Session_send("self", url, kwargs)
    ELSE LET func == IF session # "None" THEN session ELSE "self"
         IN  IF /\ executor.kind # "thread"
                /\ executor.kind = "process"
                /\ dumps(func) # "ok"
             THEN IF dumps(func) \in {"TypeError", "PickleError"}
                  THEN Eff(Raised(PICKLE_ERROR), <<>>, 0, <<>>)
                  ELSE Eff(Raised(dumps(func)), <<>>, 0, <<>>)
             ELSE submit(func, url, kwargs)

\* requests.Session.prepare_request on the session object obj: the request
\* merged with the settings of obj
Session_prepare_request(obj, url) ==
    Eff(Returned([status |-> 0, url |-> url, via |-> obj]), <<>>, 0, <<>>)

\* requests.Session.merge_environment_settings on the session object obj:
\* the environment's settings merged with the settings of obj
Session_merge_environment_settings(obj, url) ==
    Eff(Returned([status |-> 0, url |-> url, via |-> obj]), <<>>, 0, <<>>)

\* a prepare_request that always runs the base logic on this session
prepare_request_base(url) ==
    Session_prepare_request("self", url)

\* FuturesSession.prepare_request
prepare_request(url) ==
    IF session # "None"
    THEN Session_prepare_request(session, url)
    ELSE Session_prepare_request("self", url)

\* FuturesSession.merge_environment_settings
merge_environment_settings(url) ==
    IF session # "None"
    THEN Session_merge_environment_settings(session, url)
    ELSE Session_merge_environment_settings("self", url)

\* a worker that looks the delegate up when it runs the work item
run_late_bound(work_item) ==
    CASE work_item.fn = "other" ->
             Eff(Returned([status |-> 200, url |-> work_item.url,
                           via |-> "other"]), <<>>, 0, <<>>)
      [] OTHER ->
             Session_send(IF session # "None" THEN session ELSE "self",
                          work_item.url, work_item.kwargs)

\* the call a worker makes for a work item: func(request, **kwargs)
run(work_item) ==
    CASE work_item.fn = "self" ->
             \* partial(Session.send, self)
             Session_send("self", work_item.url, work_item.kwargs)
      [] work_item.fn = "other" ->
             \* the other owner's work
             Eff(Returned([status |-> 200, url |-> work_item.url,
                           via |-> "other"]), <<>>, 0, <<>>)
      [] OTHER ->
             \* self.session.send, bound to the delegate when submitted
             Session_send(work_item.fn, work_item.url, work_item.kwargs)

\* ------------------------------------------------------------- the run
\* t1 is the thread that uses the session; t2 is a second thread, which
\* closes the session while t1 uses it in the runs of RaceSpec
Callers == {"t1"}

Idle == [at |-> "idle", fut |-> 0]

NoCall ==
    [op |-> "none", url |-> "", _async |-> "unset", out |-> Raised(""),
     hits |-> 0, nested |-> <<>>]

Completed(op, url, _async, eff) ==
    [op |-> op, url |-> url, _async |-> _async, out |-> eff.out,
     hits |-> eff.hits, nested |-> eff.nested]

ReturnedNone == Eff(Returned(NoResp), <<>>, 0, <<>>)

Done(i) == futures[i].state = "done"
InFlight == {i \in 1..Len(futures) : ~Done(i)}
Running == {i \in 1..Len(futures) : futures[i].state = "running"}

\* a call's submissions reach the executor's queue
Apply(eff) ==
    /\ Len(futures) + Len(eff.submits) <= MaxFutures
    /\ futures' = futures \o eff.submits

\* FuturesSession(executor=..., max_workers=..., session=...)
ConstructorArgs(executors, workers) ==
    {[executor |-> e, max_workers |-> w, session |-> d] :
        e \in executors, w \in workers, d \in {"None", "default", "custom"}}

\* the state a session is in when __init__ has returned
Constructed(a) ==
    LET self == FuturesSession(a.executor, a.max_workers, a.session)
    IN  /\ executor = self.executor
        /\ owned_executor = self.owned_executor
        /\ session = self.session
        /\ adapters = self.adapters
        /\ args = a

\* what pickle.dumps can do with the send function of the session
Picklable ==
    dumps_result \in IF executor.kind = "process"
                     THEN {"ok", "TypeError", "PickleError", "AttributeError"}
                     ELSE {"ok", "TypeError"}

Init ==
    /\ \E a \in ConstructorArgs({None}, {1, 2, DEFAULT_POOLSIZE + 1})
                 \cup ConstructorArgs(SuppliedExecutors, {2}) :
          Constructed(a)
    /\ Picklable
    /\ closed = FALSE
    /\ futures = <<>>
    /\ pc = [t \in Threads |-> Idle]
    /\ last = NoCall
    /\ close_returned = FALSE

\* a send that waits until a worker is free to take the request
SendWhenWorkerFree(t, url, _async, allow_redirects) ==
    /\ pc[t] = Idle
    /\ _async = "False" \/ Cardinality(InFlight) < executor.workers
    /\ LET eff == send(url, _async, [allow_redirects |-> allow_redirects])
       IN  /\ Apply(eff)
           /\ last' = Completed("send", url, _async, eff)
    /\ UNCHANGED <<executor, owned_executor, session, adapters, dumps_result, args,
                   closed, pc, close_returned>>

\* session.send(request, _async=..., allow_redirects=...)
Send(t, url, _async, allow_redirects) ==
    /\ pc[t] = Idle
    /\ LET eff == send(url, _async, [allow_redirects |-> allow_redirects])
       IN  /\ Apply(eff)
           /\ last' = Completed("send", url, _async, eff)
    /\ UNCHANGED <<executor, owned_executor, session, adapters, dumps_result, args,
                   closed, pc, close_returned>>

\* close() that turns to the executor before the base session
CloseShutdownFirst(t) ==
    /\ pc[t] = Idle
    /\ executor' = [executor EXCEPT !.shutdown = owned_executor]
    /\ pc' = [pc EXCEPT ![t] = [at |-> "close", fut |-> 0]]
    /\ UNCHANGED <<owned_executor, session, adapters, dumps_result, args,
                   closed, futures, last, close_returned>>

\* close(), first statement: Session.close()
Close(t) ==
    /\ pc[t] = Idle
    /\ closed' = TRUE
    /\ pc' = [pc EXCEPT ![t] = [at |-> "close", fut |-> 0]]
    /\ UNCHANGED <<executor, owned_executor, session, adapters, dumps_result, args,
                   futures, last, close_returned>>

\* a shutdown that stops the workers with work still queued
CloseShutdownStopsWorkers(t) ==
    /\ pc[t].at = "close"
    /\ IF owned_executor
       THEN /\ executor' = [executor EXCEPT !.shutdown = TRUE, !.workers = 0]
            /\ pc' = [pc EXCEPT ![t] = [at |-> "shutdown", fut |-> 0]]
            /\ UNCHANGED <<last, close_returned>>
       ELSE /\ pc' = [pc EXCEPT ![t] = Idle]
            /\ last' = Completed("close", "", "unset", ReturnedNone)
            /\ close_returned' = TRUE
            /\ UNCHANGED executor
    /\ UNCHANGED <<owned_executor, session, adapters, dumps_result, args, closed,
                   futures>>

\* close() that shuts the executor down whoever owns it
CloseShutdownAlways(t) ==
    /\ pc[t].at = "close"
    /\ executor' = [executor EXCEPT !.shutdown = TRUE]
    /\ pc' = [pc EXCEPT ![t] = [at |-> "shutdown", fut |-> 0]]
    /\ UNCHANGED <<last, close_returned, owned_executor, session, adapters,
                   dumps_result, args, closed, futures>>

\* close() that never shuts the executor down
CloseShutdownNever(t) ==
    /\ pc[t].at = "close"
    /\ pc' = [pc EXCEPT ![t] = Idle]
    /\ last' = Completed("close", "", "unset", ReturnedNone)
    /\ close_returned' = TRUE
    /\ UNCHANGED <<executor, owned_executor, session, adapters, dumps_result, args,
                   closed, futures>>

\* close(), second statement: the owned executor is told to shut down, and
\* the call then waits for its workers; a supplied executor is left alone
\* and close() returns
CloseShutdown(t) ==
    /\ pc[t].at = "close"
    /\ IF owned_executor
       THEN /\ executor' = [executor EXCEPT !.shutdown = TRUE]
            /\ pc' = [pc EXCEPT ![t] = [at |-> "shutdown", fut |-> 0]]
            /\ UNCHANGED <<last, close_returned>>
       ELSE /\ pc' = [pc EXCEPT ![t] = Idle]
            /\ last' = Completed("close", "", "unset", ReturnedNone)
            /\ close_returned' = TRUE
            /\ UNCHANGED executor
    /\ UNCHANGED <<owned_executor, session, adapters, dumps_result, args, closed,
                   futures>>

\* executor.shutdown(wait=False): close() returns at once
CloseReturnNoWait(t) ==
    /\ pc[t].at = "shutdown"
    /\ pc' = [pc EXCEPT ![t] = Idle]
    /\ last' = Completed("close", "", "unset", ReturnedNone)
    /\ close_returned' = TRUE
    /\ UNCHANGED <<executor, owned_executor, session, adapters, dumps_result, args,
                   closed, futures>>

\* executor.shutdown() returns: the workers have run all the queued work
CloseReturn(t) ==
    /\ pc[t].at = "shutdown"
    /\ InFlight = {}
    /\ pc' = [pc EXCEPT ![t] = Idle]
    /\ last' = Completed("close", "", "unset", ReturnedNone)
    /\ close_returned' = TRUE
    /\ UNCHANGED <<executor, owned_executor, session, adapters, dumps_result, args,
                   closed, futures>>

\* a worker takes the oldest queued work item
WorkerStart(i) ==
    /\ i \in 1..Len(futures)
    /\ futures[i].state = "pending"
    /\ \A j \in 1..(i - 1) : futures[j].state # "pending"
    /\ Cardinality(Running) < executor.workers
    /\ futures' = [futures EXCEPT ![i].state = "running"]
    /\ UNCHANGED <<executor, owned_executor, session, adapters, dumps_result, args,
                   closed, pc, last, close_returned>>

\* the worker's call returns or raises, and the Future is set
WorkerFinish(i) ==
    /\ i \in 1..Len(futures)
    /\ futures[i].state = "running"
    /\ LET eff == run(futures[i])
       IN  futures' = [futures EXCEPT ![i].state = "done",
                                      ![i].out = eff.out] \o eff.submits
    /\ UNCHANGED <<executor, owned_executor, session, adapters, dumps_result, args,
                   closed, pc, last, close_returned>>

\* future.result(): the caller starts to wait
Result(t, i) ==
    /\ pc[t] = Idle
    /\ i \in 1..Len(futures)
    /\ futures[i].fn # "other"
    /\ pc' = [pc EXCEPT ![t] = [at |-> "result", fut |-> i]]
    /\ UNCHANGED <<executor, owned_executor, session, adapters, dumps_result, args,
                   closed, futures, last, close_returned>>

\* future.result() returns the response or raises the error of the call
ResultReturn(t) ==
    /\ pc[t].at = "result"
    /\ Done(pc[t].fut)
    /\ pc' = [pc EXCEPT ![t] = Idle]
    /\ last' = Completed("result", futures[pc[t].fut].url, "unset",
                         Eff(result(futures[pc[t].fut].out), <<>>, 0, <<>>))
    /\ UNCHANGED <<executor, owned_executor, session, adapters, dumps_result, args,
                   closed, futures, close_returned>>

\* session.resolve_redirects(resp, req) with a Response the caller holds
ResolveRedirects(t, url) ==
    /\ pc[t] = Idle
    /\ LET held == HTTPAdapter_send("default", url).out
           eff == resolve_redirects(held, "unset")
       IN  /\ held.kind = "response"
           /\ Apply(eff)
           /\ last' = Completed("resolve_redirects", url, "unset", eff)
    /\ UNCHANGED <<executor, owned_executor, session, adapters, dumps_result, args,
                   closed, pc, close_returned>>

\* session.resolve_redirects(future, req): resp.result() starts to wait
ResolveRedirectsFuture(t, i) ==
    /\ pc[t] = Idle
    /\ i \in 1..Len(futures)
    /\ futures[i].fn # "other"
    /\ pc' = [pc EXCEPT ![t] = [at |-> "resolve_redirects", fut |-> i]]
    /\ UNCHANGED <<executor, owned_executor, session, adapters, dumps_result, args,
                   closed, futures, last, close_returned>>

\* resp.result() has returned or raised; the redirects are followed
ResolveRedirectsResume(t) ==
    /\ pc[t].at = "resolve_redirects"
    /\ Done(pc[t].fut)
    /\ LET eff == resolve_redirects(
                      [kind |-> "future", of |-> futures[pc[t].fut].out],
                      "unset")
       IN  /\ Apply(eff)
           /\ last' = Completed("resolve_redirects_future",
                                futures[pc[t].fut].url, "unset", eff)
    /\ pc' = [pc EXCEPT ![t] = Idle]
    /\ UNCHANGED <<executor, owned_executor, session, adapters, dumps_result, args,
                   closed, close_returned>>

\* the owner of a supplied executor submits work of its own to it
OtherSubmit ==
    /\ ~owned_executor
    /\ LET eff == submit("other", "/c", [allow_redirects |-> FALSE])
       IN  /\ Apply(eff)
           /\ last' = Completed("other_submit", "/c", "unset", eff)
    /\ UNCHANGED <<executor, owned_executor, session, adapters, dumps_result, args,
                   closed, pc, close_returned>>

Next ==
    \/ \E t \in Callers, r \in Requests, _async \in {"unset", "False"} :
          Send(t, r[1], _async, r[2])
    \/ \E t \in Callers : Close(t)
    \/ \E t \in Callers : CloseShutdown(t)
    \/ \E t \in Callers : CloseReturn(t)
    \/ \E i \in 1..MaxFutures : WorkerStart(i)
    \/ \E i \in 1..MaxFutures : WorkerFinish(i)
    \/ \E t \in Callers, i \in 1..MaxFutures : Result(t, i)
    \/ \E t \in Callers : ResultReturn(t)
    \/ \E t \in Callers, url \in {"/a", "/c"} : ResolveRedirects(t, url)
    \/ \E t \in Callers, i \in 1..MaxFutures : ResolveRedirectsFuture(t, i)
    \/ \E t \in Callers : ResolveRedirectsResume(t)
    \/ OtherSubmit

Spec == Init /\ [][Next]_vars

\* ------------------------------------------------------------- construction
\* the call FuturesSession(...) itself, from the arguments to the new session
CtorInit ==
    /\ args \in ConstructorArgs({None} \cup SuppliedExecutors, 1..MaxWorkersArg)
    /\ executor = None
    /\ owned_executor = FALSE
    /\ session = "None"
    /\ adapters = NoAdapters
    /\ dumps_result = "ok"
    /\ closed = FALSE
    /\ futures = <<>>
    /\ pc = [t \in Threads |->
                IF t \in Callers THEN [at |-> "__init__", fut |-> 0] ELSE Idle]
    /\ last = NoCall
    /\ close_returned = FALSE

\* __init__, first statement: Session.__init__ mounts the default adapters
InitSuper(t) ==
    /\ pc[t].at = "__init__"
    /\ adapters' = DefaultAdapters
    /\ pc' = [pc EXCEPT ![t] = [at |-> "__init__fields", fut |-> 0]]
    /\ UNCHANGED <<executor, owned_executor, session, dumps_result, args,
                   closed, futures, last, close_returned>>

\* __init__, the rest: the executor, its ownership, the adapters, the delegate
InitFields(t) ==
    /\ pc[t].at = "__init__fields"
    /\ LET self == FuturesSession(args.executor, args.max_workers, args.session)
       IN  /\ owned_executor' = self.owned_executor
           /\ executor' = self.executor
           /\ adapters' = self.adapters
           /\ session' = self.session
    /\ pc' = [pc EXCEPT ![t] = Idle]
    /\ last' = Completed("__init__", "", "unset", ReturnedNone)
    /\ UNCHANGED <<dumps_result, args, closed, futures, close_returned>>

CtorNext ==
    \/ \E t \in Callers : InitSuper(t)
    \/ \E t \in Callers : InitFields(t)

CtorSpec == CtorInit /\ [][CtorNext]_vars

\* ------------------------------------------------------- the delegate
\* the client assigns the session attribute: session.session = s
SetSession(t, s) ==
    /\ pc[t] = Idle
    /\ s # session
    /\ session' = s
    /\ UNCHANGED <<executor, owned_executor, adapters, dumps_result, args,
                   closed, futures, pc, last, close_returned>>

\* session.prepare_request(request)
PrepareRequest(t, url) ==
    /\ pc[t] = Idle
    /\ last' = Completed("prepare_request", url, "unset",
                         prepare_request(url))
    /\ UNCHANGED <<executor, owned_executor, session, adapters, dumps_result,
                   args, closed, futures, pc, close_returned>>

\* session.merge_environment_settings(url, ...)
MergeEnvironmentSettings(t, url) ==
    /\ pc[t] = Idle
    /\ last' = Completed("merge_environment_settings", url, "unset",
                         merge_environment_settings(url))
    /\ UNCHANGED <<executor, owned_executor, session, adapters, dumps_result,
                   args, closed, futures, pc, close_returned>>

\* a session on its own thread pool, its send function picklable
DelegateInit ==
    /\ \E a \in ConstructorArgs({None}, {1, 2}) : Constructed(a)
    /\ dumps_result = "ok"
    /\ closed = FALSE
    /\ futures = <<>>
    /\ pc = [t \in Threads |-> Idle]
    /\ last = NoCall
    /\ close_returned = FALSE

\* a client that sends asynchronously and assigns the delegate in between
DelegateNext ==
    \/ \E t \in Callers, s \in {"None", "default", "custom"} : SetSession(t, s)
    \/ \E t \in Callers, r \in Requests : Send(t, r[1], "unset", r[2])
    \/ \E i \in 1..MaxFutures : WorkerStart(i)
    \/ \E i \in 1..MaxFutures : WorkerFinish(i)

DelegateSpec == DelegateInit /\ [][DelegateNext]_vars

\* a client that prepares requests and merges settings, and assigns the
\* delegate in between
PrepareNext ==
    \/ \E t \in Callers, s \in {"None", "default", "custom"} : SetSession(t, s)
    \/ \E t \in Callers, url \in URLs : PrepareRequest(t, url)
    \/ \E t \in Callers, url \in URLs : MergeEnvironmentSettings(t, url)

PrepareSpec == Init /\ [][PrepareNext]_vars

\* --------------------------------------------------------- the workers
\* the executor's workers take the queued work and finish the call they
\* run: weak fairness of WorkerStart(i) and of WorkerFinish(i), the latter
\* written out with its enabling condition, that work item i is running
WorkersFair ==
    \A i \in 1..MaxFutures :
        /\ WF_vars(WorkerStart(i))
        /\ []<>(i \notin Running) \/ []<><<WorkerFinish(i)>>_vars

\* a session without a delegate, on its own thread pool or a supplied pool
WorkerInit ==
    /\ \E a \in ConstructorArgs({None}, {1, 2})
                 \cup ConstructorArgs(SuppliedExecutors, {2}) :
          a.session = "None" /\ Constructed(a)
    /\ dumps_result = "ok"
    /\ closed = FALSE
    /\ futures = <<>>
    /\ pc = [t \in Threads |-> Idle]
    /\ last = NoCall
    /\ close_returned = FALSE

\* a client that sends asynchronously and waits for results
WorkerNext ==
    \/ \E t \in Callers, r \in Requests : Send(t, r[1], "unset", r[2])
    \/ \E t \in Callers, i \in 1..MaxFutures : Result(t, i)
    \/ \E t \in Callers : ResultReturn(t)
    \/ \E i \in 1..MaxFutures : WorkerStart(i)
    \/ \E i \in 1..MaxFutures : WorkerFinish(i)

WorkerSpec == WorkerInit /\ [][WorkerNext]_vars /\ WorkersFair

\* ------------------------------------------------------------ the race
\* a session that owns its pool
RaceInit ==
    /\ \E a \in ConstructorArgs({None}, {1, 2}) : Constructed(a)
    /\ dumps_result = "ok"
    /\ closed = FALSE
    /\ futures = <<>>
    /\ pc = [t \in Threads |-> Idle]
    /\ last = NoCall
    /\ close_returned = FALSE

\* t1 sends asynchronously while t2 calls close()
RaceNext ==
    \/ \E t \in Callers, r \in Requests : Send(t, r[1], "unset", r[2])
    \/ \E t \in Threads \ Callers : Close(t)
    \/ \E t \in Threads \ Callers : CloseShutdown(t)
    \/ \E t \in Threads \ Callers : CloseReturn(t)
    \/ \E i \in 1..MaxFutures : WorkerStart(i)
    \/ \E i \in 1..MaxFutures : WorkerFinish(i)

RaceSpec == RaceInit /\ [][RaceNext]_vars /\ WorkersFair

\* ------------------------------------------------------------- properties
\* what a caller can tell of a result: raised or returned, and the response
Observable(out) ==
    [kind |-> out.kind, err |-> out.err, status |-> out.resp.status,
     url |-> out.resp.url]

SessionFutures == {i \in 1..Len(futures) : futures[i].fn # "other"}

\* the last completed call is a send with the async flag left on
Dispatched == last.op = "send" /\ last._async = "unset"

\* C1: a session built on a supplied executor never shuts that executor
\* down, whatever was sent and closed: the executor stays open after
\* close() has returned and the work its other owner submits is accepted.
C1_SuppliedPoolStaysOpen ==
    ~owned_executor =>
        /\ ~executor.shutdown
        /\ last.op = "other_submit" => last.out.kind = "future"

C1_Witness ==
    /\ ~owned_executor
    /\ close_returned
    /\ last.op = "other_submit"
    /\ last.out.kind = "future"

\* C2: once close() has returned on a session that built its own executor,
\* the executor is shut down, and every later send with the async flag on
\* raises the executor's shutdown error and creates no Future.
C2_OwnedPoolShutDown ==
    /\ [](owned_executor /\ close_returned =>
             /\ executor.shutdown
             /\ Dispatched => last.out = Raised(ShutdownError))
    /\ [][(/\ owned_executor
           /\ close_returned
           /\ \E t \in Callers, r \in Requests : Send(t, r[1], "unset", r[2]))
          => futures' = futures]_vars

C2_Witness ==
    /\ owned_executor
    /\ close_returned
    /\ Dispatched
    /\ last.out = Raised(ShutdownError)

\* C3: the Future of a send with the async flag on comes to the result that
\* the same send with _async=False gives, with and without a delegate.
C3_AsyncSameAsSync ==
    \A i \in SessionFutures :
        Done(i) =>
            Observable(futures[i].out) =
                Observable(send(futures[i].url, "False", futures[i].kwargs).out)

\* C4: with a process pool and a send function that cannot be pickled, a
\* send with the async flag on raises the configuration error; it sends
\* nothing to the server and the session submits nothing to the pool.
C4_UnpicklableRaisesConfigError ==
    executor.kind = "process" /\ dumps_result # "ok" =>
        /\ SessionFutures = {}
        /\ Dispatched => last.out = Raised(PICKLE_ERROR) /\ last.hits = 0

\* C5: with a process pool, whatever pickle.dumps raises, the error that
\* send raises is the configuration error.
C5_AnyPickleFailureIsConfigError ==
    Dispatched /\ executor.kind = "process" /\ dumps_result # "ok" =>
        last.out.err = PICKLE_ERROR

\* C6: in every call of resolve_redirects, on a Response or on a Future,
\* every nested send of the redirect loop runs with _async=False and gives
\* a Response or raises; none gives a Future.
C6_NestedSendsSynchronous ==
    last.op \in {"resolve_redirects", "resolve_redirects_future"} =>
        \A k \in 1..Len(last.nested) :
            ~last.nested[k]._async /\ last.nested[k].kind # "future"

RECURSIVE ChainEnd(_)
\* where the base client's redirect resolution ends when it starts at resp
ChainEnd(resp) ==
    IF resp.status # 302
    THEN Returned(resp)
    ELSE LET next == HTTPAdapter_send("default", Location(resp.url)).out
         IN  IF next.kind = "error" THEN next ELSE ChainEnd(next.resp)

\* C7: resolve_redirects on a Future waits for it; then it raises the
\* Future's error, or ends with the response the base client's redirect
\* resolution ends with.
C7_FutureRedirectsResolved ==
    /\ \A t \in Callers :
           pc[t].at = "resolve_redirects" /\ ~Done(pc[t].fut) =>
               ~ENABLED ResolveRedirectsResume(t)
    /\ last.op = "resolve_redirects_future" =>
           \E i \in SessionFutures :
               /\ Done(i)
               /\ futures[i].url = last.url
               /\ Observable(last.out) =
                      Observable(IF futures[i].out.kind = "error"
                                 THEN futures[i].out
                                 ELSE ChainEnd(futures[i].out.resp))

\* C8: a send with the async flag on never raises the failure of the
\* request itself and sends nothing from the calling thread; the failure is
\* the state of the Future, and result() raises it as it is.
C8_FailuresDeferred ==
    /\ Dispatched => last.out.err # "ConnectionError" /\ last.hits = 0
    /\ \A i \in SessionFutures :
           (/\ Done(i)
            /\ HTTPAdapter_send(Config(futures[i].fn), futures[i].url).out.kind
                   = "error")
           => futures[i].out = Raised("ConnectionError")
    /\ \A t \in Callers :
           (pc[t].at = "result" /\ Done(pc[t].fut)) =>
               ENABLED ResultReturn(t)
    /\ last.op = "result" =>
           \E i \in SessionFutures : Done(i) /\ last.out = futures[i].out

C8_Witness ==
    /\ last.op = "result"
    /\ last.out = Raised("ConnectionError")
    /\ \E i \in SessionFutures :
           futures[i].url = last.url /\ futures[i].out = last.out

\* a caller that waits for the workers
Blocked(t) ==
    \/ pc[t].at \in {"result", "resolve_redirects"} /\ ~Done(pc[t].fut)
    \/ pc[t].at = "shutdown" /\ InFlight # {}

\* a send with the async flag on can be made, and gives a Future, whenever
\* the executor is open and the send function passes the pickle check
SendNeverBlocks ==
    \A t \in Callers, r \in Requests :
        (/\ pc[t] = Idle
         /\ ~executor.shutdown
         /\ executor.kind = "process" => dumps_result = "ok"
         /\ Len(futures) < MaxFutures)
        => /\ ENABLED Send(t, r[1], "unset", r[2])
           /\ send(r[1], "unset", [allow_redirects |-> r[2]]).out.kind = "future"

\* C9 as stated: send never blocks, and a caller only ever waits in the
\* resolution of a Future.
C9_OnlyResultBlocks ==
    /\ SendNeverBlocks
    /\ \A t \in Threads :
           Blocked(t) => pc[t].at \in {"result", "resolve_redirects"}

\* C9 amended: send never blocks; a caller waits in the resolution of a
\* Future and in close() of a session that owns its executor.
C9_SendNeverBlocks ==
    /\ SendNeverBlocks
    /\ \A t \in Threads :
           Blocked(t) =>
               \/ pc[t].at \in {"result", "resolve_redirects"}
               \/ pc[t].at = "shutdown" /\ owned_executor

C9_Witness ==
    /\ Dispatched
    /\ last.out.kind = "future"
    /\ futures[last.out.fut].state = "pending"
    /\ Cardinality(Running) = executor.workers
    /\ Blocked("t1")
    /\ pc["t1"].at = "shutdown"

\* C10: when close() has returned on a session that owns its executor, every
\* Future the session created is done: resolved or failed, none pending.
C10_CloseDrains ==
    owned_executor /\ close_returned =>
        \A i \in 1..Len(futures) :
            Done(i) /\ futures[i].out.kind \in {"response", "error"}

C10_Witness ==
    /\ owned_executor
    /\ last.op = "close"
    /\ \E i, j \in 1..Len(futures) :
           futures[i].out.kind = "response" /\ futures[j].out.kind = "error"

\* __init__ has returned
Built == \A t \in Callers : pc[t].at \notin {"__init__", "__init__fields"}

\* the capacity of the adapter mounted for each scheme is n
Capacity(n) ==
    /\ adapters.http = HTTPAdapter(n, n)
    /\ adapters.https = HTTPAdapter(n, n)

\* C11 as stated: a session constructed with max_workers above the default
\* pool size has adapters of that capacity for http and https; one
\* constructed with max_workers at or below it has the default capacity.
C11_CapacityFollowsMaxWorkers ==
    Built =>
        IF args.max_workers > DEFAULT_POOLSIZE
        THEN Capacity(args.max_workers)
        ELSE Capacity(DEFAULT_POOLSIZE)

\* C11 amended: the same, for a session constructed without an executor.
C11_OwnedCapacityFollowsMaxWorkers ==
    Built /\ args.executor = None =>
        IF args.max_workers > DEFAULT_POOLSIZE
        THEN Capacity(args.max_workers)
        ELSE Capacity(DEFAULT_POOLSIZE)

C11_Witness ==
    /\ Built
    /\ last.op = "__init__"
    /\ args.executor = None
    /\ args.max_workers > DEFAULT_POOLSIZE
    /\ Capacity(args.max_workers)

\* C12: constructed with an executor, the session keeps the adapters
\* Session.__init__ mounted, whatever max_workers is, has that executor as
\* its own and does not own it; the adapters differ from the default ones
\* only in a session that built its executor.
C12_SuppliedPoolLeavesAdapters ==
    /\ [](Built /\ args.executor # None =>
             /\ adapters = DefaultAdapters
             /\ executor = args.executor
             /\ ~owned_executor)
    /\ [](Built /\ adapters # DefaultAdapters => owned_executor)
    /\ [][(\E t \in Callers : InitFields(t)) /\ args.executor # None
          => adapters' = adapters]_vars

C12_Witness ==
    /\ Built
    /\ last.op = "__init__"
    /\ args.executor # None
    /\ args.max_workers > DEFAULT_POOLSIZE
    /\ adapters = DefaultAdapters
    /\ ~owned_executor

\* C13: in close() the base session is released first: the executor is
\* shut down only after Session.close() has run and only if the session
\* owns it, and close() releases the base session whether or not the
\* session owns the executor.
C13_ReleaseBeforeShutdown ==
    /\ executor.shutdown => closed /\ owned_executor
    /\ \A t \in Threads : pc[t].at \in {"close", "shutdown"} => closed
    /\ close_returned => closed

C13_Witness ==
    /\ owned_executor
    /\ closed
    /\ executor.shutdown
    /\ pc["t1"].at = "shutdown"

\* C15: the pickle check is made only for a process pool: with a thread
\* pool an asynchronous send never raises the configuration error, and it
\* submits the work (one more work item, a Future returned) whether or not
\* the send function can be pickled; the only error it can raise is the
\* executor's own refusal after shutdown.
C15_ThreadPoolSkipsPickleCheck ==
    [][(/\ executor.kind = "thread"
        /\ \E t \in Callers, r \in Requests : Send(t, r[1], "unset", r[2]))
       => /\ last'.out # Raised(PICKLE_ERROR)
          /\ IF executor.shutdown
             THEN last'.out = Raised(ShutdownError) /\ futures' = futures
             ELSE /\ last'.out = Pending(Len(futures) + 1)
                  /\ Len(futures') = Len(futures) + 1]_vars

C15_Witness ==
    /\ executor.kind = "thread"
    /\ dumps_result = "TypeError"
    /\ Dispatched
    /\ last.out.kind = "future"
    /\ Len(futures) > 0

\* the session object a call is handed to: the delegate if one is set,
\* this session otherwise
Target == IF session # "None" THEN session ELSE "self"

\* C14: an asynchronous send submits the delegate's send if a delegate is
\* set and the base send bound to this session otherwise, chosen at each
\* call from the delegate set then; the work item carries the request and
\* the call's options as given, without the _async flag, and the worker
\* runs the function that was submitted, whatever the delegate is by then.
C14_SubmitsDelegateSend ==
    /\ [][\A t \in Callers, r \in Requests :
             (Send(t, r[1], "unset", r[2]) /\ last'.out.kind = "future")
             => futures' = Append(futures,
                    [fn |-> Target, url |-> r[1],
                     kwargs |-> [allow_redirects |-> r[2]],
                     state |-> "pending",
                     out |-> Pending(Len(futures) + 1)])]_vars
    /\ [][\A i \in 1..Len(futures) :
             /\ futures'[i].fn = futures[i].fn
             /\ futures'[i].kwargs = futures[i].kwargs
             /\ (WorkerFinish(i) /\ futures[i].fn # "other")
                => futures'[i].out
                     = Session_send(futures[i].fn, futures[i].url,
                                    futures[i].kwargs).out]_vars

C14_Witness ==
    \E i \in 1..Len(futures) :
        /\ futures[i].fn = "custom"
        /\ futures[i].url = "/x"
        /\ Done(i)
        /\ futures[i].out.kind = "response"
        /\ session # "custom"

\* C16: prepare_request and merge_environment_settings hand the call to
\* the delegate when one is set, and the base logic then does not run on
\* this session; without a delegate the base logic runs on this session.
\* What the call returns is what the logic that ran returned.
C16_PrepareAndMergeDelegate ==
    /\ [][\A t \in Callers, url \in URLs :
             PrepareRequest(t, url)
             => last'.out = Session_prepare_request(Target, url).out]_vars
    /\ [][\A t \in Callers, url \in URLs :
             MergeEnvironmentSettings(t, url)
             => last'.out
                  = Session_merge_environment_settings(Target, url).out]_vars
    /\ [](last.op \in {"prepare_request", "merge_environment_settings"}
          => /\ last.out.kind = "response"
             /\ last.out.resp.via \in {"self", "default", "custom"}
             /\ last.hits = 0)

C16_Witness ==
    /\ last.op = "prepare_request"
    /\ last.out.resp.via = "custom"
    /\ session = "custom"

\* C17: in a session without a delegate the call a worker runs never
\* submits further work and never waits for a Future: every nested send of
\* its redirect chain is synchronous and returns no Future, and the queue
\* does not grow when a worker finishes.  With workers that keep
\* taking and finishing work, every Future that was handed out is
\* eventually done, for a pool of one worker as for more.
C17_WorkersNeverWait ==
    /\ [][\A i \in 1..Len(futures) :
             WorkerFinish(i)
             => /\ Len(futures') = Len(futures)
                /\ run(futures[i]).submits = <<>>
                /\ \A k \in 1..Len(run(futures[i]).nested) :
                       /\ ~run(futures[i]).nested[k]._async
                       /\ run(futures[i]).nested[k].kind # "future"]_vars
    /\ \A i \in 1..MaxFutures :
           (i <= Len(futures)) ~> (i <= Len(futures) /\ Done(i))

C17_Witness ==
    /\ executor.workers = 1
    /\ session = "None"
    /\ Len(futures) = MaxFutures
    /\ \A i \in 1..Len(futures) : Done(i) /\ futures[i].fn = "self"
    /\ \E i \in 1..Len(futures) :
           /\ futures[i].kwargs.allow_redirects
           /\ futures[i].out.kind = "response"
           /\ futures[i].out.resp.url = "/c"

\* C18: when an asynchronous send runs while another thread closes a
\* session that owns its pool, the send either raises the executor's
\* shutdown error and queues nothing, or returns a Future for work that is
\* queued; every such Future is eventually done, none stays pending.
C18_SendRacingClose ==
    /\ [][\A t \in Callers, r \in Requests :
             Send(t, r[1], "unset", r[2])
             => IF executor.shutdown
                THEN /\ last'.out = Raised(ShutdownError)
                     /\ futures' = futures
                ELSE /\ last'.out = Pending(Len(futures) + 1)
                     /\ Len(futures') = Len(futures) + 1
                     /\ futures'[Len(futures')].state = "pending"]_vars
    /\ \A i \in 1..MaxFutures :
           (i <= Len(futures)) ~> (i <= Len(futures) /\ Done(i))
    /\ [](close_returned => InFlight = {})

C18_Witness ==
    /\ last.op = "send"
    /\ last.out = Raised(ShutdownError)
    /\ Len(futures) > 0
    /\ \A i \in 1..Len(futures) : Done(i)
    /\ \E t \in Threads \ Callers : pc[t].at = "shutdown"

====
